---- MODULE Spec2Model ----
(***************************************************************************)
(* battery_management: a daemon that provisions a named pipe and then      *)
(* serves threshold commands read from it (src/src/main.rs).               *)
(*                                                                         *)
(* Text is a sequence of one-character strings.  Option<T> is a sequence   *)
(* of length at most one: None is <<>> and Some(x) is <<x>>.               *)
(***************************************************************************)
EXTENDS Integers, Sequences, FiniteSets, TLC

None == <<>>

Some(x) == <<x>>

IsSome(o) == o /= <<>>

Unwrap(o) == o[1]

(***************************************************************************)
(* Bounds of the exploration.                                              *)
(***************************************************************************)
\* longest generated raw text fragment of a payload
MaxLen == 2

\* longest generated --pipe-permissions text
MaxPermLen == 4

(***************************************************************************)
(* Text helpers: str::trim, str::split_once, char::to_digit.               *)
(***************************************************************************)
DigitChars == <<"0", "1", "2", "3", "4", "5", "6", "7", "8", "9">>

\* char::is_whitespace for the characters the model uses
is_whitespace(c) == c \in {" ", "\n", "\t"}

\* char::to_digit(radix): Some(d) for a digit below the radix, else None
to_digit(c, radix) ==
  IF \E d \in 0..(radix - 1) : DigitChars[d + 1] = c
    THEN Some(CHOOSE d \in 0..(radix - 1) : DigitChars[d + 1] = c)
    ELSE None

RECURSIVE trim_start(_)
trim_start(s) ==
  IF s /= <<>> /\ is_whitespace(Head(s)) THEN trim_start(Tail(s)) ELSE s

RECURSIVE trim_end(_)
trim_end(s) ==
  IF s /= <<>> /\ is_whitespace(s[Len(s)])
    THEN trim_end(SubSeq(s, 1, Len(s) - 1))
    ELSE s

\* str::trim
trim(s) == trim_end(trim_start(s))

\* does pat occur in s at position i
MatchesAt(s, pat, i) ==
  /\ i + Len(pat) - 1 <= Len(s)
  /\ \A k \in 1..Len(pat) : s[i + k - 1] = pat[k]

\* mutant: the last occurrence instead of the first (rsplit_once)
find_m(s, pat, i) ==
  IF \E k \in i..Len(s) : MatchesAt(s, pat, k)
    THEN CHOOSE k \in i..Len(s) :
           /\ MatchesAt(s, pat, k)
           /\ \A j \in (k + 1)..Len(s) : ~MatchesAt(s, pat, j)
    ELSE 0

\* str::find: scan left to right, first position where pat occurs (0: none)
RECURSIVE find(_, _, _)
find(s, pat, i) ==
  IF i + Len(pat) - 1 > Len(s) THEN 0
  ELSE IF MatchesAt(s, pat, i) THEN i
  ELSE find(s, pat, i + 1)

\* mutant: splits at the first character of the delimiter alone
split_once_m(s, pat) ==
  LET i == find(s, <<pat[1]>>, 1)
  IN IF i = 0 THEN None
     ELSE Some(<<SubSeq(s, 1, i - 1), SubSeq(s, i + 1, Len(s))>>)

\* str::split_once: Some((before, after)) around the first occurrence
split_once(s, pat) ==
  LET i == find(s, pat, 1)
  IN IF i = 0 THEN None
     ELSE Some(<<SubSeq(s, 1, i - 1), SubSeq(s, i + Len(pat), Len(s))>>)

\* main.rs trim_if_some
trim_if_some(v) ==
  IF IsSome(v) THEN Some(<<trim(Unwrap(v)[1]), trim(Unwrap(v)[2])>>) ELSE None

(***************************************************************************)
(* Integer conversions.                                                    *)
(***************************************************************************)
\* u8::from_str digit loop: checked multiply and add, any non-digit fails
RECURSIVE parse_digits_u8(_, _)
parse_digits_u8(s, acc) ==
  IF s = <<>> THEN Some(acc)
  ELSE LET d == to_digit(Head(s), 10)
       IN IF ~IsSome(d) THEN None
          ELSE IF acc * 10 + Unwrap(d) > 255 THEN None
          ELSE parse_digits_u8(Tail(s), acc * 10 + Unwrap(d))

\* str::parse::<u8>: empty fails, a lone sign fails, one leading "+" is
\* accepted, "-" is never accepted for an unsigned type
parse_u8(s) ==
  IF s = <<>> THEN None
  ELSE IF Len(s) = 1 /\ Head(s) \in {"+", "-"} THEN None
  ELSE IF Head(s) = "+" THEN parse_digits_u8(Tail(s), 0)
  ELSE parse_digits_u8(s, 0)

\* u8::to_string: decimal text without leading zeros
RECURSIVE to_string(_)
to_string(n) ==
  IF n < 10 THEN <<DigitChars[n + 1]>>
  ELSE to_string(n \div 10) \o <<DigitChars[(n % 10) + 1]>>

\* OctalPermissions::from_str fold: sum <<= 3 drops the three high bits of
\* the u32 (the low 29 bits move up); sum += digit
RECURSIVE octal_fold(_, _)
octal_fold(s, sum) ==
  IF s = <<>> THEN Some(sum)
  ELSE LET d == to_digit(Head(s), 8)
       IN IF ~IsSome(d) THEN None
          ELSE octal_fold(Tail(s), ((sum % 536870912) * 8) + Unwrap(d))

\* mutant: a character that is not an octal digit is skipped
from_str_m(string) ==
  octal_fold(SelectSeq(trim(string), LAMBDA c : IsSome(to_digit(c, 8))), 0)

\* OctalPermissions::from_str: Some(inner) or None for the Err
from_str(string) == octal_fold(trim(string), 0)

\* the octal digits of n, most significant first, no leading zero
RECURSIVE to_octal(_)
to_octal(n) ==
  IF n < 8 THEN <<DigitChars[n + 1]>>
  ELSE to_octal(n \div 8) \o <<DigitChars[(n % 8) + 1]>>

\* the 0 flag of a format spec: zeros in front up to the width
RECURSIVE pad_zero(_, _)
pad_zero(s, width) ==
  IF Len(s) >= width THEN s ELSE pad_zero(<<"0">> \o s, width)

\* mutant: "{:03}" in place of "{:03o}"
fmt_m(inner) == pad_zero(to_string(inner), 3)

\* Display for OctalPermissions: format_args!("{:03o}", self.inner)
fmt(inner) == pad_zero(to_octal(inner), 3)

\* bits of a that are not set in mask, over the low n bits
RECURSIVE BitClear(_, _, _)
BitClear(a, mask, n) ==
  IF n = 0 THEN 0
  ELSE (IF mask % 2 = 1 THEN 0 ELSE a % 2)
       + 2 * BitClear(a \div 2, mask \div 2, n - 1)

(***************************************************************************)
(* Inputs: command line configurations, objects at the pipe path, payloads *)
(***************************************************************************)
\* values of --pipe-permissions as clap hands them to from_str
PermArgs ==
  { <<"7", "7", "7">>, <<"6", "4", "4">>, <<"1", "7", "7", "7">> }

\* CliArgs after clap: every --pipe-permissions value from_str accepts
Configs ==
  [ pipe_permissions : { Unwrap(from_str(a)) : a \in { b \in PermArgs : IsSome(from_str(b)) } },
    pipe_uid : {None, Some(1)},
    pipe_gid : {None, Some(1)},
    default_start : {None, Some(40)},
    default_end : {None, Some(80)} ]

\* CliArgs with every default_value of the derive
DefaultConfig ==
  [ pipe_permissions |-> Unwrap(from_str(<<"7", "7", "7">>)),
    pipe_uid |-> None, pipe_gid |-> None,
    default_start |-> None, default_end |-> None ]

\* st_mode file type field (S_IFMT) and the two types the model uses
S_IFIFO == 4096

S_IFREG == 32768

file_type(st_mode) == (st_mode \div 4096) % 16

\* mutant: the type of the object is not looked at
is_fifo_m(st_mode) == TRUE

\* FileType::is_fifo
is_fifo(st_mode) == file_type(st_mode) = file_type(S_IFIFO)

\* no object at the pipe path
Absent == [exists |-> FALSE, st_mode |-> 0, uid |-> 0, gid |-> 0]

\* what may sit at the pipe path when the process starts
Pipes ==
  {Absent}
  \cup [exists : {TRUE}, st_mode : {S_IFIFO + 420, S_IFIFO + 511},
        uid : {0, 1}, gid : {0, 1}]
  \cup [exists : {TRUE}, st_mode : {S_IFREG + 420}, uid : {0}, gid : {0}]

\* process umask at startup (0o022, 0o077)
Umasks == {18, 63}

\* characters of generated payload fragments
Alpha == {"5", "2", ".", "=", " "}

RECURSIVE TextsOfLen(_)
TextsOfLen(n) ==
  IF n = 0 THEN {<<>>}
  ELSE {<<c>> \o t : c \in Alpha, t \in TextsOfLen(n - 1)}

\* every text over Alpha of length at most MaxLen
Raw == UNION {TextsOfLen(n) : n \in 0..MaxLen}

\* raw threshold values: the examples of the protocol and the edge cases of
\* u8 parsing (10, 20 with newline, 256, abc, +5, 007, -1, 255, empty)
Vals ==
  { <<"1", "0">>, <<"2", "0", "\n">>, <<"2", "5", "6">>, <<"a", "b", "c">>,
    <<"+", "5">>, <<"0", "0", "7">>, <<"-", "1">>, <<"2", "5", "5">>, <<>> }

\* assignment modes: start, end, and ones that must be rejected
Modes ==
  { <<"s", "t", "a", "r", "t">>, <<"e", "n", "d">>,
    <<"S", "t", "a", "r", "t">>, <<"f", "o", "o">>,
    <<" ", "e", "n", "d", " ">>, <<>> }

DotDot == <<".", ".">>

Eq == <<"=">>

\* payloads one read of the pipe may deliver
Payloads ==
  Raw
  \cup Vals
  \cup {l \o DotDot \o r : l \in Raw, r \in Vals}
  \cup {l \o DotDot \o r : l \in Vals, r \in Raw}
  \cup {l \o DotDot \o r : l \in Vals, r \in Vals}
  \cup {m \o Eq \o v : m \in Modes, v \in Raw \cup Vals}

\* the command "80..90" followed by a newline, as echo writes it
GoodPayload == <<"8", "0", ".", ".", "9", "0", "\n">>

\* the commands "start=50" and then "end=50"
StartThenEnd ==
  << <<"s", "t", "a", "r", "t", "=", "5", "0">>,
     <<"e", "n", "d", "=", "5", "0">> >>

(***************************************************************************)
(* State                                                                   *)
(***************************************************************************)
VARIABLES
  cfg,             \* args: the parsed CliArgs
  pipe,            \* the object at args.pipe_path
  umask,           \* the process file mode creation mask
  meta_data,       \* Option: what metadata(&args.pipe_path) returned
  pc,              \* position in main
  cause,           \* why main returned ("" while it runs)
  start_file,      \* contents of args.start_path
  end_file,        \* contents of args.end_path
  start_writable,  \* Option: result of writable(&args.start_path)
  end_writable,    \* Option: result of writable(&args.end_path)
  pending,         \* payloads writers deliver to the pipe, one per read
  last,            \* what the latest iteration of the IPC loop did
  faults,          \* recoverable events the IPC loop has met so far
  calls,           \* file system calls main has issued so far
  chown_req,       \* Option: the arguments of the chown call
  rerun,           \* this run of main follows a run that provisioned the pipe
  arg,             \* Option: the input of a function applied on its own
  ret              \* Option: what that function returned

vars ==
  << cfg, pipe, umask, meta_data, pc, cause, start_file, end_file,
     start_writable, end_writable, pending, last, faults, calls, chown_req,
     rerun, arg, ret >>

\* the loop has not run yet
NoIteration ==
  [ read_ok |-> FALSE, cmd |-> None, intent |-> None,
    start_w |-> None, end_w |-> None,
    start_res |-> None, end_res |-> None, errors |-> {} ]

Init ==
  /\ cfg \in Configs
  /\ pipe \in Pipes
  /\ umask \in Umasks
  /\ pending \in {<<>>, <<GoodPayload>>}
                 \cup {<<p, GoodPayload>> : p \in Payloads}
                 \cup {StartThenEnd}
  \* the full payload set is explored for the default command line
  /\ \/ pending \in {<<>>, <<GoodPayload>>}
     \/ /\ cfg = DefaultConfig
        /\ pipe = Absent
        /\ umask = 18
  /\ meta_data = None
  /\ pc = "inspect"
  /\ cause = ""
  /\ start_file = <<"0">>
  /\ end_file = <<"1", "0", "0">>
  /\ start_writable = None
  /\ end_writable = None
  /\ last = NoIteration
  /\ faults = {}
  /\ calls = {}
  /\ chown_req = None
  /\ rerun = FALSE
  /\ arg = None
  /\ ret = None

(***************************************************************************)
(* Provisioning of the pipe (main, lines 106-186)                          *)
(***************************************************************************)
\* mutant: the error is logged and main goes on
Exit_m(why) ==
  /\ pc' = "default_start"
  /\ cause' = why

\* return from main
Exit(why) ==
  /\ pc' = "exit"
  /\ cause' = why

\* metadata(&args.pipe_path): fails when nothing is there, and may fail for
\* another reason when something is
Inspect ==
  /\ pc = "inspect"
  /\ \/ /\ pipe.exists
        /\ meta_data' = Some([st_mode |-> pipe.st_mode, uid |-> pipe.uid,
                              gid |-> pipe.gid])
        /\ IF is_fifo(pipe.st_mode)
             THEN pc' = "chown" /\ cause' = cause
             ELSE Exit("wrong_type")
     \/ /\ meta_data' = None
        /\ pc' = "create"
        /\ cause' = cause
  /\ UNCHANGED << rerun, arg, ret, cfg, pipe, umask, start_file, end_file, start_writable,
                  end_writable, pending, last, faults, calls, chown_req >>

\* mutant: only the uid is compared
wrong_ids_m(args, meta) ==
  IsSome(args.pipe_uid) /\ meta.uid /= Unwrap(args.pipe_uid)

\* lines 119-122
wrong_ids(args, meta) ==
  \/ IsSome(args.pipe_uid) /\ meta.uid /= Unwrap(args.pipe_uid)
  \/ IsSome(args.pipe_gid) /\ meta.gid /= Unwrap(args.pipe_gid)

\* std::os::unix::fs::chown(path, uid, gid): a None side is left as it is
chown(obj, uid, gid) ==
  [obj EXCEPT !.uid = IF IsSome(uid) THEN Unwrap(uid) ELSE @,
              !.gid = IF IsSome(gid) THEN Unwrap(gid) ELSE @]

\* lines 124-140
Chown ==
  /\ pc = "chown"
  /\ IF wrong_ids(cfg, Unwrap(meta_data))
       THEN /\ calls' = calls \cup {"chown"}
            /\ chown_req' = Some([uid |-> cfg.pipe_uid, gid |-> cfg.pipe_gid])
            /\ \/ /\ pipe' = chown(pipe, cfg.pipe_uid, cfg.pipe_gid)
                  /\ pc' = "perms"
                  /\ cause' = cause
               \/ /\ pipe' = pipe
                  /\ Exit("chown_failed")
       ELSE /\ pc' = "perms"
            /\ UNCHANGED << pipe, cause, calls, chown_req >>
  /\ UNCHANGED << rerun, arg, ret, cfg, umask, meta_data, start_file, end_file, start_writable,
                  end_writable, pending, last, faults >>

\* chmod(2): the twelve permission bits are replaced, the type is kept
chmod(obj, mode) ==
  [obj EXCEPT !.st_mode = (@ \div 4096) * 4096 + (mode % 4096)]

\* lines 143-155: the mode compared is the one metadata returned
Perms ==
  /\ pc = "perms"
  /\ IF (Unwrap(meta_data).st_mode % 512) = cfg.pipe_permissions
       THEN /\ pc' = "default_start"
            /\ UNCHANGED << pipe, cause, calls >>
       ELSE /\ calls' = calls \cup {"chmod"}
            /\ \/ /\ pipe' = chmod(pipe, cfg.pipe_permissions)
                  /\ pc' = "default_start"
                  /\ cause' = cause
               \/ /\ pipe' = pipe
                  /\ Exit("chmod_failed")
  /\ UNCHANGED << rerun, arg, ret, cfg, umask, meta_data, start_file, end_file, start_writable,
                  end_writable, pending, last, faults, chown_req >>

\* errno values main tells apart after a failed mkfifo (lines 172-182)
MkfifoErrors ==
  { "EACCES", "EDQUOT", "EEXIST", "ENAMETOOLONG", "ENOENT", "ENOSPC",
    "ENOTDIR", "EROFS", "UNKNOWN ERROR" }

\* mkfifo(3) under mask: a FIFO owned by the process, mode & ~mask
mkfifo(mode, mask) ==
  [exists |-> TRUE, st_mode |-> S_IFIFO + BitClear(mode % 4096, mask, 12),
   uid |-> 0, gid |-> 0]

\* lines 158-186: umask(0), then mkfifo with the configured mode
Create ==
  /\ pc = "create"
  /\ umask' = 0
  /\ calls' = calls \cup {"umask", "mkfifo"}
  /\ \/ /\ ~pipe.exists
        /\ cfg.pipe_permissions \div 4096 \in {0, 1}
        /\ pipe' = mkfifo(cfg.pipe_permissions, umask')
        /\ pc' = "default_start"
        /\ cause' = cause
     \/ /\ \E errno \in MkfifoErrors :
             /\ pipe.exists => errno \in {"EEXIST", "EACCES"}
             /\ Exit(errno)
        /\ pipe' = pipe
  /\ UNCHANGED << rerun, arg, ret, cfg, meta_data, start_file, end_file, start_writable,
                  end_writable, pending, last, faults, chown_req >>

(***************************************************************************)
(* Initial thresholds and the writability probe (main, lines 188-222)      *)
(***************************************************************************)
\* mutant: the text is appended to what the file holds
write_m(contents, value, ok) ==
  IF ok THEN contents \o to_string(value) ELSE contents

\* std::fs::write(path, value.to_string()): the new contents when it works
write(contents, value, ok) == IF ok THEN to_string(value) ELSE contents

\* mutant: a failed write of the initial start threshold is tried again
DefaultStart_m ==
  /\ pc = "default_start"
  /\ IF IsSome(cfg.default_start)
       THEN /\ calls' = calls \cup {"write_default_start"}
            /\ \E ok \in BOOLEAN :
                 /\ start_file' =
                      write(start_file, Unwrap(cfg.default_start), ok)
                 /\ pc' = IF ok THEN "default_end" ELSE "default_start"
       ELSE /\ pc' = "default_end"
            /\ UNCHANGED << calls, start_file >>
  /\ UNCHANGED << rerun, arg, ret, cfg, pipe, umask, meta_data, cause,
                  end_file, start_writable, end_writable, pending, last,
                  faults, chown_req >>

\* lines 188-196
DefaultStart ==
  /\ pc = "default_start"
  /\ pc' = "default_end"
  /\ IF IsSome(cfg.default_start)
       THEN /\ calls' = calls \cup {"write_default_start"}
            /\ \E ok \in BOOLEAN :
                 start_file' = write(start_file, Unwrap(cfg.default_start), ok)
       ELSE UNCHANGED << calls, start_file >>
  /\ UNCHANGED << rerun, arg, ret, cfg, pipe, umask, meta_data, cause, end_file,
                  start_writable, end_writable, pending, last, faults,
                  chown_req >>

\* lines 197-205
DefaultEnd ==
  /\ pc = "default_end"
  /\ pc' = "probe"
  /\ IF IsSome(cfg.default_end)
       THEN /\ calls' = calls \cup {"write_default_end"}
            /\ \E ok \in BOOLEAN :
                 end_file' = write(end_file, Unwrap(cfg.default_end), ok)
       ELSE UNCHANGED << calls, end_file >>
  /\ UNCHANGED << rerun, arg, ret, cfg, pipe, umask, meta_data, cause, start_file,
                  start_writable, end_writable, pending, last, faults,
                  chown_req >>

\* mutant: gives up when either path is not writable
neither_writable_m(sw, ew) == ~sw \/ ~ew

\* line 219: the condition under which main gives up
neither_writable(sw, ew) == ~sw /\ ~ew

\* lines 208-222: access(path, W_OK) on both paths
Probe ==
  /\ pc = "probe"
  /\ \E sw \in BOOLEAN, ew \in BOOLEAN :
       /\ start_writable' = Some(sw)
       /\ end_writable' = Some(ew)
       /\ IF neither_writable(sw, ew)
            THEN Exit("not_writable")
            ELSE pc' = "serving" /\ cause' = cause
  /\ UNCHANGED << rerun, arg, ret, cfg, pipe, umask, meta_data, start_file, end_file, pending,
                  last, faults, calls, chown_req >>

(***************************************************************************)
(* The IPC loop (main, lines 226-244) and set_thresholds (lines 247-275)   *)
(***************************************************************************)
\* one side of set_thresholds: the value to write, when the side is there
\* and parses (lines 253-254, 262-263)
parsed_side(side_o) ==
  IF IsSome(side_o) THEN parse_u8(Unwrap(side_o)) ELSE None

\* mutant: an unparsable start value returns before the end value is tried
set_thresholds_m(start_o, end_o, start_ok, end_ok) ==
  IF ~IsSome(start_o) /\ ~IsSome(end_o)
    THEN [ start_w |-> None, end_w |-> None,
           start_res |-> None, end_res |-> None,
           errors |-> {"Neither start nor end threshold provided"} ]
    ELSE LET start == parsed_side(start_o)
             end == IF IsSome(start_o) /\ ~IsSome(start)
                      THEN None ELSE parsed_side(end_o)
         IN [ start_w |-> start,
              end_w |-> end,
              start_res |-> IF IsSome(start) THEN Some(start_ok) ELSE None,
              end_res |-> IF IsSome(end) THEN Some(end_ok) ELSE None,
              errors |->
                (IF IsSome(start) /\ ~start_ok
                   THEN {"Error while setting charge control start threshold"}
                   ELSE {})
                \cup
                (IF IsSome(end) /\ ~end_ok
                   THEN {"Error while setting charge control end threshold"}
                   ELSE {})
                \cup
                (IF ~IsSome(start) /\ ~IsSome(end)
                   THEN {"Neither start nor end threshold parsable"}
                   ELSE {}) ]

\* mutant: only a write that succeeded counts as a parsable side
set_thresholds_w(start_o, end_o, start_ok, end_ok) ==
  IF ~IsSome(start_o) /\ ~IsSome(end_o)
    THEN [ start_w |-> None, end_w |-> None,
           start_res |-> None, end_res |-> None,
           errors |-> {"Neither start nor end threshold provided"} ]
    ELSE LET start == parsed_side(start_o)
             end == parsed_side(end_o)
             atleast_one_parsable ==
               (IsSome(start) /\ start_ok) \/ (IsSome(end) /\ end_ok)
         IN [ start_w |-> start,
              end_w |-> end,
              start_res |-> IF IsSome(start) THEN Some(start_ok) ELSE None,
              end_res |-> IF IsSome(end) THEN Some(end_ok) ELSE None,
              errors |->
                (IF IsSome(start) /\ ~start_ok
                   THEN {"Error while setting charge control start threshold"}
                   ELSE {})
                \cup
                (IF IsSome(end) /\ ~end_ok
                   THEN {"Error while setting charge control end threshold"}
                   ELSE {})
                \cup
                (IF ~atleast_one_parsable
                   THEN {"Neither start nor end threshold parsable"}
                   ELSE {}) ]

\* set_thresholds: the writes it attempts, their results and its reports;
\* start_ok and end_ok are what the two writes return if they are made
set_thresholds(start_o, end_o, start_ok, end_ok) ==
  IF ~IsSome(start_o) /\ ~IsSome(end_o)
    THEN [ start_w |-> None, end_w |-> None,
           start_res |-> None, end_res |-> None,
           errors |-> {"Neither start nor end threshold provided"} ]
    ELSE LET start == parsed_side(start_o)
             end == parsed_side(end_o)
             atleast_one_parsable == IsSome(start) \/ IsSome(end)
         IN [ start_w |-> start,
              end_w |-> end,
              start_res |-> IF IsSome(start) THEN Some(start_ok) ELSE None,
              end_res |-> IF IsSome(end) THEN Some(end_ok) ELSE None,
              errors |->
                (IF IsSome(start) /\ ~start_ok
                   THEN {"Error while setting charge control start threshold"}
                   ELSE {})
                \cup
                (IF IsSome(end) /\ ~end_ok
                   THEN {"Error while setting charge control end threshold"}
                   ELSE {})
                \cup
                (IF ~atleast_one_parsable
                   THEN {"Neither start nor end threshold parsable"}
                   ELSE {}) ]

\* mutant: the mode is matched without regard to case
mode_intent_m(mode, value) ==
  IF mode \in {<<"s", "t", "a", "r", "t">>, <<"S", "t", "a", "r", "t">>}
    THEN [intent |-> Some(<<Some(value), None>>), errors |-> {}]
  ELSE IF mode = <<"e", "n", "d">>
    THEN [intent |-> Some(<<None, Some(value)>>), errors |-> {}]
  ELSE [intent |-> None, errors |-> {"Wrong mode provided"}]

\* lines 238-242: the match on the mode of an assignment
mode_intent(mode, value) ==
  IF mode = <<"s", "t", "a", "r", "t">>
    THEN [intent |-> Some(<<Some(value), None>>), errors |-> {}]
  ELSE IF mode = <<"e", "n", "d">>
    THEN [intent |-> Some(<<None, Some(value)>>), errors |-> {}]
  ELSE [intent |-> None, errors |-> {"Wrong mode provided"}]

\* lines 232-243: the arguments of the set_thresholds call a payload leads
\* to (Some(<<start_o, end_o>>)), or None with the error reported
parse_command(cmd) ==
  LET range == trim_if_some(split_once(cmd, DotDot))
      assign == trim_if_some(split_once(cmd, Eq))
  IN IF IsSome(range)
       THEN [ intent |-> Some(<<Some(Unwrap(range)[1]), Some(Unwrap(range)[2])>>),
              errors |-> {} ]
     ELSE IF IsSome(assign)
       THEN mode_intent(Unwrap(assign)[1], Unwrap(assign)[2])
     ELSE [intent |-> None, errors |-> {}]

\* one iteration of the loop body on a payload that was read
run_command(cmd, start_ok, end_ok) ==
  LET parsed == parse_command(cmd)
  IN IF IsSome(parsed.intent)
       THEN LET done == set_thresholds(Unwrap(parsed.intent)[1],
                                       Unwrap(parsed.intent)[2],
                                       start_ok, end_ok)
            IN [ read_ok |-> TRUE, cmd |-> Some(cmd),
                 intent |-> parsed.intent,
                 start_w |-> done.start_w, end_w |-> done.end_w,
                 start_res |-> done.start_res, end_res |-> done.end_res,
                 errors |-> done.errors ]
       ELSE [ read_ok |-> TRUE, cmd |-> Some(cmd), intent |-> None,
              start_w |-> None, end_w |-> None,
              start_res |-> None, end_res |-> None,
              errors |-> parsed.errors ]

\* the recoverable events of one iteration
FaultsOf(it) ==
  (IF ~it.read_ok THEN {"read_err"} ELSE {})
  \cup (IF it.read_ok /\ it.cmd = Some(<<>>) THEN {"empty"} ELSE {})
  \cup (IF it.read_ok /\ ~IsSome(it.intent) /\ it.errors = {}
          THEN {"unrecognized"} ELSE {})
  \cup (IF "Wrong mode provided" \in it.errors THEN {"wrong_mode"} ELSE {})
  \cup (IF /\ IsSome(it.intent)
           /\ \/ IsSome(Unwrap(it.intent)[1]) /\ ~IsSome(it.start_w)
              \/ IsSome(Unwrap(it.intent)[2]) /\ ~IsSome(it.end_w)
          THEN {"unparsable"} ELSE {})
  \cup (IF it.start_res = Some(FALSE) \/ it.end_res = Some(FALSE)
          THEN {"write_fail"} ELSE {})

\* mutant: an iteration that reported an error leaves the loop
next_pc_m(it) == IF it.errors /= {} THEN "exit" ELSE "serving"

\* where the loop goes after an iteration: back to the read (line 226)
next_pc(it) == "serving"

\* read_to_string(args.pipe_path) fails: line 229, continue
ReadErr ==
  /\ pc = "serving"
  /\ last' = [NoIteration EXCEPT
                !.errors = {"Error while reading IPC command from pipe"}]
  /\ faults' = faults \cup FaultsOf(last')
  /\ pc' = next_pc(last')
  /\ calls' = calls \cup {"read"}
  /\ UNCHANGED << rerun, arg, ret, cfg, pipe, umask, meta_data, cause, start_file, end_file,
                  start_writable, end_writable, pending, chown_req >>

\* mutant: a side the probe found not writable is not written
ReadCmd_m ==
  /\ pc = "serving"
  /\ pending /= <<>>
  /\ pending' = Tail(pending)
  /\ \E start_ok \in BOOLEAN, end_ok \in BOOLEAN :
       /\ last' = LET it == run_command(Head(pending), start_ok, end_ok)
                  IN [it EXCEPT
                        !.start_res = IF start_writable = Some(FALSE)
                                        THEN None ELSE @,
                        !.end_res = IF end_writable = Some(FALSE)
                                      THEN None ELSE @]
       /\ start_file' = IF last'.start_res = Some(TRUE)
                          THEN to_string(Unwrap(last'.start_w))
                          ELSE start_file
       /\ end_file' = IF last'.end_res = Some(TRUE)
                        THEN to_string(Unwrap(last'.end_w))
                        ELSE end_file
  /\ faults' = faults \cup FaultsOf(last')
  /\ pc' = next_pc(last')
  /\ calls' = calls \cup {"read"}
  /\ UNCHANGED << rerun, arg, ret, cfg, pipe, umask, meta_data, cause,
                  start_writable, end_writable, chown_req >>

\* read_to_string returns the next payload: lines 232-243
ReadCmd ==
  /\ pc = "serving"
  /\ pending /= <<>>
  /\ pending' = Tail(pending)
  /\ \E start_ok \in BOOLEAN, end_ok \in BOOLEAN :
       /\ last' = run_command(Head(pending), start_ok, end_ok)
       /\ start_file' = IF IsSome(last'.start_w)
                          THEN write(start_file, Unwrap(last'.start_w), start_ok)
                          ELSE start_file
       /\ end_file' = IF IsSome(last'.end_w)
                        THEN write(end_file, Unwrap(last'.end_w), end_ok)
                        ELSE end_file
  /\ faults' = faults \cup FaultsOf(last')
  /\ pc' = next_pc(last')
  /\ calls' = calls \cup {"read"}
  /\ UNCHANGED << rerun, arg, ret, cfg, pipe, umask, meta_data, cause, start_writable,
                  end_writable, chown_req >>

\* main is started again after a run that provisioned the pipe and returned
\* because neither control path was writable: a new process, with the mask
\* of its parent, finds the file system as the first one left it
Rerun ==
  /\ pc = "exit"
  /\ cause = "not_writable"
  /\ ~rerun
  /\ rerun' = TRUE
  /\ pc' = "inspect"
  /\ cause' = ""
  /\ umask' \in Umasks
  /\ meta_data' = None
  /\ start_writable' = None
  /\ end_writable' = None
  /\ calls' = {}
  /\ chown_req' = None
  /\ UNCHANGED << arg, ret, cfg, pipe, start_file, end_file, pending, last,
                  faults >>

Next ==
  \/ Inspect
  \/ Chown
  \/ Perms
  \/ Create
  \/ DefaultStart
  \/ DefaultEnd
  \/ Probe
  \/ ReadErr
  \/ ReadCmd

Spec == Init /\ [][Next]_vars

\* runs of main where a run that returned is followed by a second one
NextRerun ==
  \/ Next
  \/ Rerun

SpecRerun == Init /\ [][NextRerun]_vars

(***************************************************************************)
(* set_thresholds applied on its own to every pair of optional raw values  *)
(***************************************************************************)
\* Option<&str> arguments of set_thresholds
SideArgs == {None} \cup {Some(v) : v \in Vals \cup Raw}

\* the state main is in when it calls a function: the fields the function
\* does not touch
Idle ==
  /\ cfg = DefaultConfig
  /\ pipe = Absent
  /\ umask = 18
  /\ meta_data = None
  /\ cause = ""
  /\ start_writable = None
  /\ end_writable = None
  /\ pending = <<>>
  /\ last = NoIteration
  /\ faults = {}
  /\ calls = {}
  /\ chown_req = None
  /\ rerun = FALSE

InitThresholds ==
  /\ Idle
  /\ pc = "set_thresholds"
  /\ arg \in {Some(a) : a \in [start : SideArgs, end : SideArgs,
                                 start_ok : BOOLEAN, end_ok : BOOLEAN]}
  /\ ret = None
  /\ start_file = <<"0">>
  /\ end_file = <<"1", "0", "0">>

\* lines 247-275: one call of set_thresholds
SetThresholds ==
  /\ pc = "set_thresholds"
  /\ pc' = "returned"
  /\ LET a == Unwrap(arg)
         done == set_thresholds(a.start, a.end, a.start_ok, a.end_ok)
     IN /\ ret' = Some(done)
        /\ start_file' = IF IsSome(done.start_w)
                           THEN write(start_file, Unwrap(done.start_w),
                                      a.start_ok)
                           ELSE start_file
        /\ end_file' = IF IsSome(done.end_w)
                         THEN write(end_file, Unwrap(done.end_w), a.end_ok)
                         ELSE end_file
  /\ UNCHANGED << rerun, arg, cfg, pipe, umask, meta_data, cause,
                  start_writable, end_writable, pending, last, faults, calls,
                  chown_req >>

NextThresholds == SetThresholds

SpecThresholds == InitThresholds /\ [][NextThresholds]_vars

(***************************************************************************)
(* OctalPermissions applied on its own: fmt on values, from_str on texts   *)
(* and on what fmt rendered                                                *)
(***************************************************************************)
\* characters of generated --pipe-permissions texts
PermAlpha == {"0", "1", "7", "8", "a", "-", " "}

RECURSIVE PermTextsOfLen(_)
PermTextsOfLen(n) ==
  IF n = 0 THEN {<<>>}
  ELSE {<<c>> \o t : c \in PermAlpha, t \in PermTextsOfLen(n - 1)}

\* every text over PermAlpha of length at most MaxPermLen
PermTexts == UNION {PermTextsOfLen(n) : n \in 0..MaxPermLen}

\* values of inner that fit the twelve permission bits of a mode
PermValues == 0..4095

InitCodec ==
  /\ Idle
  /\ \/ pc = "fmt" /\ arg \in {Some(v) : v \in PermValues}
     \/ pc = "from_str" /\ arg \in {Some(t) : t \in PermTexts}
  /\ ret = None
  /\ start_file = <<"0">>
  /\ end_file = <<"1", "0", "0">>

\* lines 31-35: the value is rendered
Fmt ==
  /\ pc = "fmt"
  /\ pc' = "rendered"
  /\ ret' = Some(fmt(Unwrap(arg)))
  /\ UNCHANGED << rerun, arg, cfg, pipe, umask, meta_data, cause, start_file,
                  end_file, start_writable, end_writable, pending, last,
                  faults, calls, chown_req >>

\* lines 36-47: a text, or what fmt rendered, is parsed; ret is
\* Some(Some(inner)) for Ok and Some(None) for Err
FromStr ==
  /\ pc \in {"from_str", "rendered"}
  /\ pc' = IF pc = "rendered" THEN "round_trip" ELSE "parsed"
  /\ ret' = Some(from_str(IF pc = "rendered" THEN Unwrap(ret)
                                              ELSE Unwrap(arg)))
  /\ UNCHANGED << rerun, arg, cfg, pipe, umask, meta_data, cause, start_file,
                  end_file, start_writable, end_writable, pending, last,
                  faults, calls, chown_req >>

NextCodec ==
  \/ Fmt
  \/ FromStr

SpecCodec == InitCodec /\ [][NextCodec]_vars

(***************************************************************************)
(* Properties                                                              *)
(***************************************************************************)
\* the object is a FIFO special file (S_IFMT field of st_mode is S_IFIFO)
IsFifoObject(obj) == obj.exists /\ (obj.st_mode \div 4096) % 16 = 1

\* main is past the provisioning of the pipe without having given up there
Provisioned ==
  \/ pc \in {"default_start", "default_end", "probe", "serving"}
  \/ pc = "exit" /\ cause = "not_writable"

ControlWrites ==
  {"write_default_start", "write_default_end"}

\* C1: the pipe is read only after provisioning succeeded, so that the pipe
\* path is a FIFO (verified by metadata or created by mkfifo), and after at
\* least one control path was probed writable; with neither writable main
\* returns without a read, with exactly one it enters the loop.
C1_ServingRequiresFifoAndWritable ==
  /\ (pc = "serving" \/ "read" \in calls) =>
       /\ pc = "serving"
       /\ cause = ""
       /\ IsFifoObject(pipe)
       /\ \/ IsSome(meta_data) /\ (Unwrap(meta_data).st_mode \div 4096) % 16 = 1
          \/ ~IsSome(meta_data) /\ "mkfifo" \in calls
       /\ start_writable = Some(TRUE) \/ end_writable = Some(TRUE)
  /\ (start_writable = Some(FALSE) /\ end_writable = Some(FALSE)) =>
       /\ pc = "exit"
       /\ "read" \notin calls
       /\ last = NoIteration
  /\ (IsSome(start_writable) /\ start_writable /= end_writable) =>
       pc = "serving"

\* C1 witness: the loop has read the pipe it created although only the end
\* path was probed writable
C1_Witness ==
  /\ pc = "serving"
  /\ "read" \in calls
  /\ "mkfifo" \in calls
  /\ start_writable = Some(FALSE)
  /\ end_writable = Some(TRUE)

\* C2: while a non-FIFO object sits at the pipe path no step changes it,
\* requests an ownership or mode change, writes a control point, reads the
\* pipe or gets past provisioning.
C2_NonFifoLeftUntouched ==
  [][ (pipe.exists /\ (pipe.st_mode \div 4096) % 16 /= 1) =>
        /\ pipe' = pipe
        /\ pc' \in {"create", "exit"}
        /\ calls' \subseteq {"umask", "mkfifo"}
        /\ chown_req' = None
        /\ start_file' = start_file
        /\ end_file' = end_file ]_vars

\* C2 witness: main returned because of a regular file at the pipe path whose
\* owner is not the configured one
C2_Witness ==
  /\ pc = "exit"
  /\ cause = "wrong_type"
  /\ pipe.exists
  /\ (pipe.st_mode \div 4096) % 16 = 8
  /\ IsSome(cfg.pipe_uid)
  /\ pipe.uid /= Unwrap(cfg.pipe_uid)
  /\ pipe.st_mode % 512 /= cfg.pipe_permissions
  /\ calls = {}

\* C3: whenever provisioning succeeded the pipe path is a FIFO whose low 9
\* mode bits equal the configured permission value.
C3_ModeEqualsConfigured ==
  Provisioned =>
    /\ IsFifoObject(pipe)
    /\ pipe.st_mode % 512 = cfg.pipe_permissions

\* C4: for an existing FIFO chown is called if and only if a configured uid
\* or gid differs from the observed one; the call carries exactly the
\* configured sides, a side that was not configured keeps its owner; a
\* failed call ends main before the loop.
C4_ChownExactlyWhenOwnerDiffers ==
  /\ ("chown" \in calls \/ IsSome(chown_req)) =>
       /\ IsSome(meta_data)
       /\ (Unwrap(meta_data).st_mode \div 4096) % 16 = 1
  /\ (/\ IsSome(meta_data)
      /\ (Unwrap(meta_data).st_mode \div 4096) % 16 = 1
      /\ pc /= "chown") =>
       LET seen == Unwrap(meta_data)
           uid_differs ==
             cfg.pipe_uid /= None /\ cfg.pipe_uid /= Some(seen.uid)
           gid_differs ==
             cfg.pipe_gid /= None /\ cfg.pipe_gid /= Some(seen.gid)
       IN /\ ("chown" \in calls) <=> (uid_differs \/ gid_differs)
          /\ IsSome(chown_req) <=> (uid_differs \/ gid_differs)
          /\ IsSome(chown_req) =>
               /\ Unwrap(chown_req).uid = cfg.pipe_uid
               /\ Unwrap(chown_req).gid = cfg.pipe_gid
          /\ (cfg.pipe_uid = None \/ ~IsSome(chown_req)
                \/ cause = "chown_failed") => pipe.uid = seen.uid
          /\ (cfg.pipe_gid = None \/ ~IsSome(chown_req)
                \/ cause = "chown_failed") => pipe.gid = seen.gid
          /\ (IsSome(chown_req) /\ cause /= "chown_failed") =>
               /\ cfg.pipe_uid /= None => Some(pipe.uid) = cfg.pipe_uid
               /\ cfg.pipe_gid /= None => Some(pipe.gid) = cfg.pipe_gid
          /\ cause = "chown_failed" =>
               /\ pc = "exit"
               /\ "read" \notin calls
               /\ IsSome(chown_req)

\* C4 witness: only a gid was configured, it differed, and the loop runs on
\* a pipe whose group changed and whose user did not
C4_Witness ==
  /\ pc = "serving"
  /\ cfg.pipe_uid = None
  /\ cfg.pipe_gid = Some(1)
  /\ IsSome(meta_data)
  /\ Unwrap(meta_data).gid = 0
  /\ Unwrap(meta_data).uid = 1
  /\ chown_req = Some([uid |-> None, gid |-> Some(1)])
  /\ pipe.gid = 1
  /\ pipe.uid = 1

\* C5: after a fatal provisioning failure (wrong type, failed chown, failed
\* chmod, failed mkfifo of any errno) main has returned: no control point
\* was written then or before, the pipe is never read, no step follows.
C5_FatalProvisioningStopsEverything ==
  (cause \in {"wrong_type", "chown_failed", "chmod_failed"} \cup MkfifoErrors) =>
    /\ pc = "exit"
    /\ calls \cap (ControlWrites \cup {"read"}) = {}
    /\ start_file = <<"0">>
    /\ end_file = <<"1", "0", "0">>
    /\ last = NoIteration
    /\ ~IsSome(start_writable)
    /\ ~IsSome(end_writable)
    /\ ~ENABLED Next

\* C5 witness: chmod failed while initial thresholds were configured and a
\* command was waiting in the pipe
C5_Witness ==
  /\ pc = "exit"
  /\ cause = "chmod_failed"
  /\ IsSome(cfg.default_start)
  /\ IsSome(cfg.default_end)
  /\ pending /= <<>>
  /\ calls = {"chmod"}

(***************************************************************************)
(* Reference notions for the command protocol, stated without the          *)
(* operators of the model                                                  *)
(***************************************************************************)
\* pat stands in s at position i
Occurs(s, pat, i) ==
  /\ i >= 1
  /\ i + Len(pat) - 1 <= Len(s)
  /\ SubSeq(s, i, i + Len(pat) - 1) = pat

Contains(s, pat) == \E i \in 1..Len(s) : Occurs(s, pat, i)

\* the position of the first occurrence of pat in s
FirstAt(s, pat) ==
  CHOOSE i \in 1..Len(s) :
    /\ Occurs(s, pat, i)
    /\ \A j \in 1..(i - 1) : ~Occurs(s, pat, j)

Before(s, pat) == SubSeq(s, 1, FirstAt(s, pat) - 1)

After(s, pat) == SubSeq(s, FirstAt(s, pat) + Len(pat), Len(s))

Blank(c) == c = " " \/ c = "\n" \/ c = "\t"

\* t is s without its leading and trailing whitespace
IsTrimOf(t, s) ==
  \E a \in 0..Len(s), b \in 0..Len(s) :
    /\ a + b <= Len(s)
    /\ \A k \in 1..a : Blank(s[k])
    /\ \A k \in (Len(s) - b + 1)..Len(s) : Blank(s[k])
    /\ t = SubSeq(s, a + 1, Len(s) - b)
    /\ t /= <<>> => ~Blank(t[1]) /\ ~Blank(t[Len(t)])

TrimOf(s) ==
  CHOOSE t \in {SubSeq(s, a, b) : a \in 1..(Len(s) + 1), b \in 0..Len(s)} :
    IsTrimOf(t, s)

\* the digits of a numeral, without the one "+" that may lead it
Numeral(s) == IF s /= <<>> /\ s[1] = "+" THEN SubSeq(s, 2, Len(s)) ELSE s

\* the k-th digit of a text of digits (0 left of the text)
DigitAt(body, k) ==
  IF k < 1 THEN 0 ELSE CHOOSE d \in 0..9 : body[k] = DigitChars[d + 1]

\* Some(n) when the text is a decimal numeral of an integer n in [0,255]:
\* at least one digit, only digits, nothing but zeros left of the last
\* three digits, and those three denote at most 255
ByteOf(s) ==
  LET body == Numeral(s)
      L == Len(body)
      n == 100 * DigitAt(body, L - 2) + 10 * DigitAt(body, L - 1)
             + DigitAt(body, L)
  IN IF /\ L >= 1
        /\ \A k \in 1..L : \E d \in 0..9 : body[k] = DigitChars[d + 1]
        /\ \A k \in 1..(L - 3) : body[k] = "0"
        /\ n <= 255
       THEN Some(n)
       ELSE None

\* a step of the loop that read the payload Head(pending) from the pipe
ReadsPayload ==
  /\ pc = "serving"
  /\ pending /= <<>>
  /\ pending' = Tail(pending)

\* C6: in the loop every step (a failed read, an empty, unrecognized,
\* wrongly addressed or unparsable payload, a failed write) comes back to
\* the read, and the command "80..90" is parsed and dispatched whatever
\* happened before it.
C6_LoopNeverStops ==
  [][pc = "serving" =>
       /\ pc' = "serving"
       /\ cause' = ""
       /\ "read" \in calls'
       /\ (ReadsPayload /\ Head(pending) = GoodPayload) =>
            /\ last'.intent = Some(<<Some(<<"8", "0">>), Some(<<"9", "0">>)>>)
            /\ last'.start_w = Some(80)
            /\ last'.end_w = Some(90)
            /\ IsSome(last'.start_res)
            /\ IsSome(last'.end_res)]_vars

\* C6 witness: after a failed read, an unparsable value and a failed write
\* the command "80..90" was written to both control points
C6_Witness ==
  /\ pc = "serving"
  /\ {"read_err", "unparsable", "write_fail"} \subseteq faults
  /\ last.cmd = Some(GoodPayload)
  /\ last.start_res = Some(TRUE)
  /\ last.end_res = Some(TRUE)
  /\ start_file = <<"8", "0">>
  /\ end_file = <<"9", "0">>

\* C7: a write is attempted for a side exactly when the side is present and
\* its raw value is a numeral of an integer in [0,255], and then with that
\* integer; each side is decided without regard to the other.
C7_WriteIffSideParses ==
  last.read_ok =>
    LET start_o == IF IsSome(last.intent) THEN Unwrap(last.intent)[1] ELSE None
        end_o == IF IsSome(last.intent) THEN Unwrap(last.intent)[2] ELSE None
    IN /\ last.start_w = IF IsSome(start_o) THEN ByteOf(Unwrap(start_o)) ELSE None
       /\ last.end_w = IF IsSome(end_o) THEN ByteOf(Unwrap(end_o)) ELSE None
       /\ IsSome(last.start_res) <=> IsSome(last.start_w)
       /\ IsSome(last.end_res) <=> IsSome(last.end_w)

\* C7 witness: "256..10" wrote 10 to the end path and nothing to the start
\* path
C7_Witness ==
  /\ last.cmd = Some(<<"2", "5", "6", ".", ".", "1", "0">>)
  /\ last.start_w = None
  /\ last.start_res = None
  /\ last.end_w = Some(10)
  /\ last.end_res = Some(TRUE)
  /\ start_file = <<"0">>
  /\ end_file = <<"1", "0">>

\* C8: a payload that contains ".." is a range command, "=" or not: the
\* start raw value is the trimmed text before the first "..", the end raw
\* value the trimmed text after it, and both sides are present.
C8_RangeFirstSplitAtFirstDots ==
  (last.read_ok /\ Contains(Unwrap(last.cmd), DotDot)) =>
    /\ IsSome(last.intent)
    /\ IsSome(Unwrap(last.intent)[1])
    /\ IsSome(Unwrap(last.intent)[2])
    /\ IsTrimOf(Unwrap(Unwrap(last.intent)[1]), Before(Unwrap(last.cmd), DotDot))
    /\ IsTrimOf(Unwrap(Unwrap(last.intent)[2]), After(Unwrap(last.cmd), DotDot))
    /\ "Wrong mode provided" \notin last.errors

\* C8 witness: "=...10" was split into "=" and ".10"
C8_Witness ==
  /\ last.cmd = Some(<<"=", ".", ".", ".", "1", "0">>)
  /\ last.intent = Some(<<Some(<<"=">>), Some(<<".", "1", "0">>)>>)

\* C9: a payload with "=" and without ".." is split at the first "="; the
\* trimmed mode "start" gives a start-only intent that leaves the end path
\* alone, "end" an end-only intent that leaves the start path alone, any
\* other mode an error and no intent and no write.
C9_AssignmentByMode ==
  [][(/\ ReadsPayload
       /\ ~Contains(Head(pending), DotDot)
       /\ Contains(Head(pending), Eq)) =>
         LET mode == TrimOf(Before(Head(pending), Eq))
             value == TrimOf(After(Head(pending), Eq))
         IN /\ mode = <<"s", "t", "a", "r", "t">> =>
                 /\ last'.intent = Some(<<Some(value), None>>)
                 /\ last'.end_w = None
                 /\ last'.end_res = None
                 /\ end_file' = end_file
            /\ mode = <<"e", "n", "d">> =>
                 /\ last'.intent = Some(<<None, Some(value)>>)
                 /\ last'.start_w = None
                 /\ last'.start_res = None
                 /\ start_file' = start_file
            /\ mode \notin {<<"s", "t", "a", "r", "t">>, <<"e", "n", "d">>} =>
                 /\ last'.intent = None
                 /\ last'.errors = {"Wrong mode provided"}
                 /\ last'.start_res = None
                 /\ last'.end_res = None
                 /\ start_file' = start_file
                 /\ end_file' = end_file]_vars

\* C9 witness: "start=5" wrote 5 to the start path and left the end path
C9_Witness ==
  /\ last.cmd = Some(<<"s", "t", "a", "r", "t", "=", "5">>)
  /\ last.intent = Some(<<Some(<<"5">>), None>>)
  /\ last.start_res = Some(TRUE)
  /\ start_file = <<"5">>
  /\ end_file = <<"1", "0", "0">>

\* C10: a payload with neither ".." nor "=", the empty one included, gives
\* no intent, no write and no report, and both control points keep their
\* contents.
C10_OtherPayloadsDiscarded ==
  [][(/\ ReadsPayload
       /\ ~Contains(Head(pending), DotDot)
       /\ ~Contains(Head(pending), Eq)) =>
         /\ last'.read_ok
         /\ last'.intent = None
         /\ last'.errors = {}
         /\ last'.start_w = None
         /\ last'.end_w = None
         /\ last'.start_res = None
         /\ last'.end_res = None
         /\ start_file' = start_file
         /\ end_file' = end_file
         /\ pc' = "serving"]_vars

\* C10 witness: the empty payload was read and nothing happened
C10_Witness ==
  /\ pc = "serving"
  /\ last.read_ok
  /\ last.cmd = Some(<<>>)
  /\ last.intent = None
  /\ last.errors = {}
  /\ start_file = <<"0">>
  /\ end_file = <<"1", "0", "0">>

\* the text is the decimal numeral of n as it is printed: digits only and
\* no zero in front of another digit
IsDecimalOf(t, n) ==
  /\ Len(t) >= 1
  /\ \A k \in 1..Len(t) : \E d \in 0..9 : t[k] = DigitChars[d + 1]
  /\ Len(t) > 1 => t[1] /= "0"
  /\ ByteOf(t) = Some(n)

\* C11: a write of a parsed side that succeeds leaves the decimal text of
\* the value as the whole contents of the control file; a side that is not
\* written, or whose write fails, and a failed read leave the file as it
\* was, so each file holds the value of its last successful write; "80..90"
\* with both writes successful leaves "80" and "90".
C11_WriteReplacesWithDecimal ==
  [][/\ ReadsPayload =>
          /\ IF last'.start_res = Some(TRUE)
                THEN IsDecimalOf(start_file', Unwrap(last'.start_w))
                ELSE start_file' = start_file
          /\ IF last'.end_res = Some(TRUE)
                THEN IsDecimalOf(end_file', Unwrap(last'.end_w))
                ELSE end_file' = end_file
          /\ ( /\ Head(pending) = GoodPayload
               /\ last'.start_res = Some(TRUE)
               /\ last'.end_res = Some(TRUE) ) =>
                 /\ start_file' = <<"8", "0">>
                 /\ end_file' = <<"9", "0">>
     /\ (pc = "serving" /\ ~ReadsPayload) =>
          /\ start_file' = start_file
          /\ end_file' = end_file
    ]_vars

\* C11 witness: after an initial start threshold was written, "80..90" was
\* served with both writes successful and the files hold "80" and "90"
C11_Witness ==
  /\ pc = "serving"
  /\ "write_default_start" \in calls
  /\ last.cmd = Some(GoodPayload)
  /\ last.start_res = Some(TRUE)
  /\ last.end_res = Some(TRUE)
  /\ start_file = <<"8", "0">>
  /\ end_file = <<"9", "0">>

\* C12: the probe of the two control paths is advisory.  In the loop the
\* write of every side that is present and parses is attempted, whatever
\* the probe returned for its path and whatever the other write returns;
\* the probe results are not taken again and a failed write leaves the
\* process in the loop.
C12_ProbeIsAdvisory ==
  [][ReadsPayload =>
       /\ pc' = "serving"
       /\ cause' = ""
       /\ start_writable' = start_writable
       /\ end_writable' = end_writable
       /\ IsSome(last'.intent) =>
            LET s == Unwrap(last'.intent)[1]
                e == Unwrap(last'.intent)[2]
            IN /\ (IsSome(s) /\ IsSome(ByteOf(Unwrap(s)))) =>
                    IsSome(last'.start_res)
               /\ (IsSome(e) /\ IsSome(ByteOf(Unwrap(e)))) =>
                    IsSome(last'.end_res)
    ]_vars

\* C12 witness: the start path was probed not writable, the write of
\* "start=50" failed and was reported, and the later "end=50" was written
C12_Witness ==
  /\ pc = "serving"
  /\ start_writable = Some(FALSE)
  /\ "write_fail" \in faults
  /\ pending = <<>>
  /\ last.cmd = Some(StartThenEnd[2])
  /\ last.end_res = Some(TRUE)
  /\ start_file = <<"0">>
  /\ end_file = <<"5", "0">>

\* C13: set_thresholds reports "Neither start nor end threshold parsable"
\* exactly when a side is present and no write is attempted; a write that
\* is attempted and fails still counts as attempted.  It reports "Neither
\* start nor end threshold provided" exactly when both sides are absent,
\* and then it does nothing else.
C13_NeitherReports ==
  pc = "returned" =>
    LET a == Unwrap(arg)
        r == Unwrap(ret)
        present == IsSome(a.start) \/ IsSome(a.end)
        start_tried == IsSome(a.start) /\ IsSome(ByteOf(Unwrap(a.start)))
        end_tried == IsSome(a.end) /\ IsSome(ByteOf(Unwrap(a.end)))
    IN /\ IsSome(r.start_res) <=> start_tried
       /\ IsSome(r.end_res) <=> end_tried
       /\ ("Neither start nor end threshold parsable" \in r.errors)
            <=> (present /\ ~start_tried /\ ~end_tried)
       /\ ("Neither start nor end threshold provided" \in r.errors)
            <=> ~present
       /\ ~present =>
            /\ r.errors = {"Neither start nor end threshold provided"}
            /\ start_file = <<"0">>
            /\ end_file = <<"1", "0", "0">>

\* C13 witness: the start write was attempted and failed, the end value
\* does not parse; the failed write is reported but "not parsable" is not
C13_Witness ==
  /\ pc = "returned"
  /\ Unwrap(arg).start = Some(<<"1", "0">>)
  /\ Unwrap(arg).end = Some(<<"a", "b", "c">>)
  /\ Unwrap(ret).start_res = Some(FALSE)
  /\ Unwrap(ret).errors =
       {"Error while setting charge control start threshold"}

\* C14: each initial threshold that is configured is written once: the
\* write is attempted in the one step that follows the provisioning of the
\* pipe, before the probe and before any read, never when the value is not
\* configured, and no later step goes back to it or writes it again.
C14_InitialThresholdsOnce ==
  [][/\ pc = "default_start" =>
          /\ pc' = "default_end"
          /\ "write_default_start" \notin calls
          /\ "read" \notin calls
          /\ IsFifoObject(pipe)
          /\ ("write_default_start" \in calls') <=> IsSome(cfg.default_start)
          /\ \/ start_file' = start_file
             \/ /\ IsSome(cfg.default_start)
                /\ IsDecimalOf(start_file', Unwrap(cfg.default_start))
     /\ pc = "default_end" =>
          /\ pc' = "probe"
          /\ "write_default_end" \notin calls
          /\ "read" \notin calls
          /\ ("write_default_end" \in calls') <=> IsSome(cfg.default_end)
          /\ \/ end_file' = end_file
             \/ /\ IsSome(cfg.default_end)
                /\ IsDecimalOf(end_file', Unwrap(cfg.default_end))
     /\ pc /= "default_start" =>
          /\ ("write_default_start" \in calls')
               <=> ("write_default_start" \in calls)
          /\ pc \notin {"inspect", "chown", "perms", "create"} =>
               pc' /= "default_start"
     /\ pc /= "default_end" =>
          /\ ("write_default_end" \in calls')
               <=> ("write_default_end" \in calls)
          /\ pc' = "default_end" => pc = "default_start"
     /\ (pc \in {"probe", "serving"} /\ ~ReadsPayload) =>
          /\ start_file' = start_file
          /\ end_file' = end_file
    ]_vars

\* C14 witness: only the start threshold is configured; it was written
\* before the loop, the end file was not, and a failed read in the loop
\* left "40" in the start file
C14_Witness ==
  /\ pc = "serving"
  /\ cfg.default_start = Some(40)
  /\ cfg.default_end = None
  /\ calls \cap ControlWrites = {"write_default_start"}
  /\ "read" \in calls
  /\ ~last.read_ok
  /\ start_file = <<"4", "0">>
  /\ end_file = <<"1", "0", "0">>

OctalChars == {"0", "1", "2", "3", "4", "5", "6", "7"}

\* the digit an octal character stands for
OctalValue(c) == CHOOSE d \in 0..7 : DigitChars[d + 1] = c

\* C15: a value of [0, 511] is rendered as exactly three octal digits that
\* denote it, and parsing what was rendered gives the value back.
C15_RoundTrip ==
  /\ (pc = "rendered" /\ Unwrap(arg) <= 511) =>
       LET t == Unwrap(ret)
       IN /\ Len(t) = 3
          /\ \A k \in 1..3 : t[k] \in OctalChars
          /\ 64 * OctalValue(t[1]) + 8 * OctalValue(t[2]) + OctalValue(t[3])
               = Unwrap(arg)
  /\ (pc = "round_trip" /\ Unwrap(arg) <= 511) =>
       Unwrap(ret) = Some(Unwrap(arg))

\* C15 witness: 0o644 = 420 was rendered and parsed back
C15_Witness ==
  /\ pc = "round_trip"
  /\ Unwrap(arg) = 420
  /\ Unwrap(ret) = Some(420)

\* C16: from_str returns the error, and no value, for every text that has a
\* character other than 0-7 left after its surrounding whitespace is
\* trimmed, wherever the character is (8, letters, signs, inner whitespace).
C16_NonOctalRejected ==
  pc = "parsed" =>
    LET t == TrimOf(Unwrap(arg))
    IN (\E k \in 1..Len(t) : t[k] \notin OctalChars) => Unwrap(ret) = None

\* C16 witness: " 7 1" has a whitespace between two digits and was rejected
C16_Witness ==
  /\ pc = "parsed"
  /\ Unwrap(arg) = <<" ", "7", " ", "1">>
  /\ Unwrap(ret) = None

\* C19: every value from_str returns is a 9-bit value, in [0, 511],
\* whatever the text is.
C19_ParsedValueIsNineBits ==
  (pc = "parsed" /\ IsSome(Unwrap(ret))) =>
    Unwrap(Unwrap(ret)) \in 0..511

\* C17: when metadata fails although something is at the pipe path, main
\* returns at once, without a creation step; mkfifo is called only when
\* nothing is at the path.
C17_CreationOnlyWhenAbsent ==
  [][/\ (pc = "inspect" /\ pipe.exists /\ meta_data' = None) =>
          /\ pc' = "exit"
          /\ "mkfifo" \notin calls'
     /\ ("mkfifo" \in calls' /\ "mkfifo" \notin calls) => ~pipe.exists
    ]_vars

\* C18: the mask cleared for mkfifo is put back before the creation step
\* is left, whether mkfifo worked or not: no step of main ends with a
\* process umask other than the one it began with, so that the loop runs
\* under the mask the process was started with.
C18_UmaskRestored ==
  [][umask' = umask]_vars

\* calls that change the file system or the process mask
Mutations == {"chown", "chmod", "umask", "mkfifo"}

\* metadata returned a FIFO whose ids are the configured ones and whose low
\* nine mode bits are the configured value
ObservedMatching ==
  /\ IsSome(meta_data)
  /\ (Unwrap(meta_data).st_mode \div 4096) % 16 = 1
  /\ IsSome(cfg.pipe_uid) => Unwrap(meta_data).uid = Unwrap(cfg.pipe_uid)
  /\ IsSome(cfg.pipe_gid) => Unwrap(meta_data).gid = Unwrap(cfg.pipe_gid)
  /\ Unwrap(meta_data).st_mode % 512 = cfg.pipe_permissions

\* a step of the provisioning that follows the inspection of the path
Reconciles == pc \in {"chown", "perms", "create"}

\* a step that neither changes the object at the pipe path nor the mask,
\* issues no mutating call and does not give up
ChangesNothing ==
  /\ pipe' = pipe
  /\ umask' = umask
  /\ calls' \cap Mutations = {}
  /\ pc' /= "exit"

\* C20: the provisioning is idempotent.  When metadata shows a FIFO with
\* the configured ids and the configured low nine mode bits, it changes
\* nothing and succeeds; and a second run of main that follows a run which
\* provisioned the pipe, and inspects the path successfully, changes
\* nothing.
C20_Idempotent ==
  [][/\ (Reconciles /\ ObservedMatching) => ChangesNothing
     /\ (Reconciles /\ rerun /\ IsSome(meta_data)) => ChangesNothing
    ]_vars

====
